---- MODULE Spec2Model ----
(***************************************************************************)
(* Model of safelib (src/safelib/__init__.py): scoped, fallback-aware      *)
(* symbol resolution.  The Python objects are modelled as they live on the *)
(* heap: the two class-level _Sentinel objects `_State.main` and           *)
(* `_State.fallback`, the instance attributes of the global `state`        *)
(* object, and the Import guard instances with their snapshots.            *)
(***************************************************************************)
EXTENDS Naturals, Sequences, FiniteSets, TLC

VARIABLES
    cls,        \* the class-level sentinels _State.main / _State.fallback
    inst,       \* instance attributes of the global `state` (set by exit)
    raise_exc,  \* state._raise_exc
    guards,     \* the Import instances: main, fallback, _old_state
    loadable,   \* host: namespaces importlib.import_module can load
    defs,       \* host: <<namespace, symbol>> pairs getattr finds
    stack,      \* history: scopes entered and not yet exited, oldest first
    lifo,       \* history: every enter/exit so far was properly nested
    pristine,   \* history: nothing but ordinary lookups happened outside scopes
    closed,     \* history: some scope has been opened and closed
    hist,       \* history: the enters and exits so far, while nothing else happened
    budget,     \* history: the number of operations still to be explored
    last        \* history: the last operation and its outcome

vars == <<cls, inst, raise_exc, guards, loadable, defs,
          stack, lifo, pristine, closed, hist, budget, last>>

----------------------------------------------------------------------------
\* Bounds of the model

HistLen == 4

MaxOps == 4

MaxOpsHosts == 3

Guards == {"A", "B"}

\* names a caller passes as namespace names and looks up
Names == {"", "a", "b", "s"}

\* names looked up while the scoping discipline is explored
ScopeLookups == {"a", "s"}

\* the `raises` arguments used while the scoping discipline is explored:
\* the default of Import.__init__
ScopeRaises == {TRUE}

\* names the guards are constructed with
ScopeNames == {"a", "b"}

\* namespaces the host may be able to load, symbols they may define
Modules == {"a", "b"}

Symbols == {"a", "s"}

----------------------------------------------------------------------------
\* Values

\* Python's None, as the value of a sentinel
NoneV == "<None>"

\* the class _Future, as a value and as a return value
FutureV == "<_Future>"

ControlNames == {"_reset", "_main", "_fallback"}

\* _Sentinel(): value None, empty True, future False (class attributes)
EmptySentinel == [value |-> NoneV, empty |-> TRUE, future |-> FALSE]

Assigned(n) == [value |-> n, empty |-> FALSE, future |-> FALSE]

Pending == [value |-> FutureV, empty |-> FALSE, future |-> TRUE]

\* a copy that loses the pending mark
copy_unmarked(s) == [value |-> s.value, empty |-> s.empty, future |-> FALSE]

\* a copy that is a fresh _Sentinel() with no field copied
copy_fresh(s) == [value |-> NoneV, empty |-> TRUE, future |-> FALSE]

\* _Sentinel.copy
copy(s) == [value |-> s.value, empty |-> s.empty, future |-> s.future]

\* a reset that sets the empty flag and leaves value and future alone
sreset_flag_only(s) == [s EXCEPT !.empty = TRUE]

\* _Sentinel.reset
sreset(s) == [s EXCEPT !.value = NoneV, !.empty = TRUE, !.future = FALSE]

\* _State.reset, on the sentinels a _State object sees
reset(st) == [main |-> sreset(st.main), fallback |-> sreset(st.fallback)]

\* _State.raises: the property evaluates self._raise_exc and returns None
raises(flag) == FALSE

\* Python truthiness of a sentinel value: None and "" are false
Truthy(v) == v # NoneV /\ v # ""

----------------------------------------------------------------------------
\* Return values of a lookup

Ret(kind, ns, sym) == [kind |-> kind, ns |-> ns, sym |-> sym]

RetNone == Ret("None", "", "")

\* the class _Future returned as a marker
RetFuture == Ret("Future", "", "")

\* the class NotFound returned as a marker
RetNotFound == Ret("NotFound", "", "")

RetModule(n) == Ret("module", n, "")

RetSymbol(n, s) == Ret("symbol", n, s)

RetSentinel(which) == Ret("sentinel", which, "")

RetRaise(exc) == Ret("raise", "", exc)

\* the exceptions the `except ImportError` clauses catch
ImportErrors == {"ImportError", "ModuleNotFoundError"}

\* importlib.import_module(n): the module, or the exception it raises
import_module(n) ==
    IF n \in loadable THEN RetModule(n)
    ELSE IF n = "" THEN RetRaise("ValueError")
    ELSE RetRaise("ModuleNotFoundError")

\* getattr(importlib.import_module(ns), name)
import_getattr(ns, name) ==
    IF import_module(ns).kind = "raise" THEN import_module(ns)
    ELSE IF <<ns, name>> \in defs THEN RetSymbol(ns, name)
    ELSE RetRaise("AttributeError")

\* getattr(importlib.import_module(ns), name, NotFound)
import_getattr_default(ns, name) ==
    IF import_module(ns).kind = "raise" THEN import_module(ns)
    ELSE IF <<ns, name>> \in defs THEN RetSymbol(ns, name)
    ELSE RetNotFound

----------------------------------------------------------------------------
\* The resolver, __getattr__(name, state)

Outcome(st, ret, consulted) == [st |-> st, ret |-> ret, consulted |-> consulted]

\* `except (ImportError, AttributeError, ModuleNotFoundError)`
Caught == ImportErrors \cup {"AttributeError"}

\* a handler that applies the error policy without trying the fallback
fallback_skipped(st, name, flag) ==
    [st |-> st, ret |-> IF raises(flag) THEN RetRaise("ImportError") ELSE RetNotFound,
     consulted |-> <<>>]

\* a handler that tries the fallback without testing `state.fallback.empty`
fallback_unchecked(st, name, flag) ==
    IF name = st.fallback.value
    THEN [st |-> st,
          ret |-> IF import_module(name).kind = "raise"
                        /\ import_module(name).sym \in ImportErrors
                  THEN IF raises(flag) THEN RetRaise("ImportError") ELSE RetNotFound
                  ELSE import_module(name),
          consulted |-> <<name>>]
    ELSE [st |-> st,
          ret |-> IF raises(flag)
                  THEN import_getattr(st.fallback.value, name)
                  ELSE import_getattr_default(st.fallback.value, name),
          consulted |-> <<st.fallback.value>>]

\* the `except` handler of the primary attempt: the fallback attempt
fallback_attempt(st, name, flag) ==
    IF ~st.fallback.empty
    THEN IF name = st.fallback.value
         THEN Outcome(st,
                  IF import_module(name).kind = "raise"
                        /\ import_module(name).sym \in ImportErrors
                  THEN IF raises(flag) THEN RetRaise("ImportError") ELSE RetNotFound
                  ELSE import_module(name),
                  <<name>>)
         ELSE Outcome(st,
                  IF raises(flag)
                  THEN import_getattr(st.fallback.value, name)
                  ELSE import_getattr_default(st.fallback.value, name),
                  <<st.fallback.value>>)
    ELSE Outcome(st,
             IF raises(flag) THEN RetRaise("ImportError") ELSE RetNotFound,
             <<>>)

\* a primary attempt that asks the fallback namespace
primary_from_fallback(st, name) ==
    IF name = st.fallback.value
    THEN import_module(name)
    ELSE import_getattr(st.fallback.value, name)

\* a primary attempt without the self-reference check
primary_no_self(st, name) == import_getattr(st.main.value, name)

\* the `try` block: the primary attempt
primary_attempt(st, name) ==
    IF name = st.main.value
    THEN import_module(name)
    ELSE import_getattr(st.main.value, name)

\* a resolution that makes the fallback the primary once the fallback has
\* supplied the name
resolve_promoting(st, name, flag) ==
    IF Truthy(st.main.value)
    THEN IF primary_attempt(st, name).kind = "raise"
              /\ primary_attempt(st, name).sym \in Caught
         THEN LET fb == fallback_attempt(st, name, flag)
              IN  Outcome(IF fb.ret.kind \in {"symbol", "module"}
                          THEN [st EXCEPT !.main = st.fallback] ELSE st,
                          fb.ret, <<st.main.value>> \o fb.consulted)
         ELSE Outcome(st, primary_attempt(st, name), <<st.main.value>>)
    ELSE Outcome(st, RetFuture, <<>>)

\* a resolution that turns to the fallback when the primary has no value
resolve_resting_fallback(st, name, flag) ==
    IF Truthy(st.main.value)
    THEN IF primary_attempt(st, name).kind = "raise"
              /\ primary_attempt(st, name).sym \in Caught
         THEN LET fb == fallback_attempt(st, name, flag)
              IN  Outcome(st, fb.ret, <<st.main.value>> \o fb.consulted)
         ELSE Outcome(st, primary_attempt(st, name), <<st.main.value>>)
    ELSE fallback_attempt(st, name, flag)

\* `if state.main.value:` and what follows, up to `return _Future`
resolve(st, name, flag) ==
    IF Truthy(st.main.value)
    THEN IF primary_attempt(st, name).kind = "raise"
              /\ primary_attempt(st, name).sym \in Caught
         THEN LET fb == fallback_attempt(st, name, flag)
              IN  Outcome(st, fb.ret, <<st.main.value>> \o fb.consulted)
         ELSE Outcome(st, primary_attempt(st, name), <<st.main.value>>)
    ELSE Outcome(st, RetFuture, <<>>)

\* a consumption that clears the mark and forgets the name
consume_unnamed(s, name) ==
    IF s.future THEN [s EXCEPT !.future = FALSE] ELSE s

\* `if state.main.future:` / `if state.fallback.future:`
consume(s, name) ==
    IF s.future THEN [s EXCEPT !.value = name, !.future = FALSE] ELSE s

\* an else branch whose second deferral test is an `elif`
ordinary_elif(st, name, flag) ==
    resolve([main |-> consume(st.main, name),
             fallback |-> IF st.main.future THEN st.fallback
                          ELSE consume(st.fallback, name)], name, flag)

\* the `else` branch of __getattr__: an ordinary name
ordinary(st, name, flag) ==
    resolve([main |-> consume(st.main, name),
             fallback |-> consume(st.fallback, name)], name, flag)

\* the assignments of the `_main` / `_fallback` branches
mark_future(s) == [s EXCEPT !.value = FutureV, !.empty = FALSE, !.future = TRUE]

\* __getattr__(name, state) on the sentinels `state` sees
getattr_(st, name, flag) ==
    IF name = "_reset" THEN Outcome(reset(st), RetNone, <<>>)
    ELSE IF name = "_main"
    THEN Outcome([st EXCEPT !.main = mark_future(st.main)], RetSentinel("main"), <<>>)
    ELSE IF name = "_fallback"
    THEN Outcome([st EXCEPT !.fallback = mark_future(st.fallback)],
                 RetSentinel("fallback"), <<>>)
    ELSE ordinary(st, name, flag)

----------------------------------------------------------------------------
\* The objects

\* the sentinels the global `state` sees: its own attributes once exit
\* has assigned them, the class attributes of _State until then
Live == IF inst.own THEN [main |-> inst.main, fallback |-> inst.fallback] ELSE cls

\* the sentinels a fresh _State() sees: `if state is None: state = _State()`
Fresh == cls

\* in-place mutation of the sentinels the global `state` sees
SetLive(st) ==
    IF inst.own
    THEN /\ inst' = [own |-> TRUE, main |-> st.main, fallback |-> st.fallback]
         /\ cls' = cls
    ELSE /\ cls' = st
         /\ inst' = inst

NoSnapshot == [has |-> FALSE, main |-> EmptySentinel, fallback |-> EmptySentinel]

Unmade == [made |-> FALSE, main |-> "", fallback |-> "", raises |-> TRUE,
           old |-> NoSnapshot]

Active == {stack[i].g : i \in DOMAIN stack}

Top == stack[Len(stack)]

Pop == SubSeq(stack, 1, Len(stack) - 1)

\* the stack without the innermost scope of guard g
Without(g) ==
    IF g \in Active
    THEN LET i == CHOOSE k \in DOMAIN stack :
                    stack[k].g = g /\ \A j \in DOMAIN stack : stack[j].g = g => j <= k
         IN  SubSeq(stack, 1, i - 1) \o SubSeq(stack, i + 1, Len(stack))
    ELSE stack

Done(op, via, g, name, ret, consulted, pre, ok) ==
    [op |-> op, via |-> via, g |-> g, name |-> name, ret |-> ret,
     consulted |-> consulted, pre |-> pre, ok |-> ok]

\* one more operation; hist keeps the enters and exits of a run made of
\* nothing else, and is cut to <<"other">> once anything else has happened
Count(op, g) ==
    /\ budget > 0
    /\ budget' = budget - 1
    /\ hist' = IF op \in {"enter", "exit"} /\ hist # <<<<"other", "">>>> /\ Len(hist) < HistLen
               THEN Append(hist, <<op, g>>)
               ELSE <<<<"other", "">>>>

\* every host over Modules and Symbols: what loads, and what it defines
Hosts ==
    UNION {{[loadable |-> L, defs |-> D] : D \in SUBSET (L \X Symbols)} :
            L \in SUBSET Modules}

\* one host: "a" loads and defines "s", nothing else loads
OneHost == {[loadable |-> {"a"}, defs |-> {<<"a", "s">>}]}

\* the state after `import safelib`, under one of the given hosts
InitWith(hosts, n) ==
    /\ cls = [main |-> EmptySentinel, fallback |-> EmptySentinel]
    /\ inst = [own |-> FALSE, main |-> EmptySentinel, fallback |-> EmptySentinel]
    /\ raise_exc = FALSE
    /\ guards = [g \in Guards |-> Unmade]
    /\ \E h \in hosts : loadable = h.loadable /\ defs = h.defs
    /\ stack = <<>>
    /\ lifo = TRUE
    /\ pristine = TRUE
    /\ closed = FALSE
    /\ hist = <<>>
    /\ budget = n
    /\ last = Done("init", "", "", "", RetNone, <<>>, cls, TRUE)

Init == InitWith(OneHost, MaxOps)

InitHosts == InitWith(Hosts, MaxOpsHosts)

\* a catch that enables raising instead of disabling it
catch_enabling == raise_exc' = TRUE

\* _State.catch
catch == raise_exc' = FALSE

\* Import.__init__(main, fallback, raises)
Construct(g, m, f, r) ==
    /\ ~guards[g].made
    /\ guards' = [guards EXCEPT ![g] =
                    [made |-> TRUE, main |-> m, fallback |-> f, raises |-> r,
                     old |-> NoSnapshot]]
    /\ IF ~r THEN catch ELSE raise_exc' = raise_exc
    /\ last' = Done("construct", "", g, "", RetNone, <<>>, Live, r)
    /\ UNCHANGED <<cls, inst, loadable, defs, stack, lifo, pristine, closed, hist, budget>>

\* an enter that keeps the snapshot it already holds
enter_keep_first(g) ==
    /\ guards[g].made
    /\ guards' = IF guards[g].old.has THEN guards
                 ELSE [guards EXCEPT ![g].old =
                        [has |-> TRUE, main |-> copy(Live.main),
                         fallback |-> copy(Live.fallback)]]
    /\ SetLive([main |-> [Live.main EXCEPT !.value = guards[g].main,
                                           !.empty = FALSE, !.future = FALSE],
                fallback |-> [Live.fallback EXCEPT !.value = guards[g].fallback,
                                                   !.empty = FALSE, !.future = FALSE]])
    /\ stack' = Append(stack, [g |-> g, main |-> Live.main, fallback |-> Live.fallback])
    /\ lifo' = (lifo /\ g \notin Active)
    /\ pristine' = (pristine /\ g \notin Active)
    /\ Count("enter", g)
    /\ last' = Done("enter", "", g, "", RetNone, <<>>, Live, lifo /\ g \notin Active)
    /\ UNCHANGED <<raise_exc, loadable, defs, closed>>

\* Import.enter (__enter__, __aenter__)
enter(g) ==
    /\ guards[g].made
    /\ guards' = [guards EXCEPT ![g].old =
                    [has |-> TRUE, main |-> copy(Live.main),
                     fallback |-> copy(Live.fallback)]]
    /\ SetLive([main |-> [Live.main EXCEPT !.value = guards[g].main,
                                           !.empty = FALSE, !.future = FALSE],
                fallback |-> [Live.fallback EXCEPT !.value = guards[g].fallback,
                                                   !.empty = FALSE, !.future = FALSE]])
    /\ stack' = Append(stack, [g |-> g, main |-> Live.main, fallback |-> Live.fallback])
    /\ lifo' = (lifo /\ g \notin Active)
    /\ pristine' = (pristine /\ g \notin Active)
    /\ Count("enter", g)
    /\ last' = Done("enter", "", g, "", RetNone, <<>>, Live, lifo /\ g \notin Active)
    /\ UNCHANGED <<raise_exc, loadable, defs, closed>>

\* Import.exit (__exit__, __aexit__) of a guard that holds a snapshot
exit(g) ==
    /\ guards[g].made
    /\ guards[g].old.has
    /\ inst' = [own |-> TRUE, main |-> copy(guards[g].old.main),
                fallback |-> copy(guards[g].old.fallback)]
    /\ LET nested == lifo /\ stack # <<>> /\ Top.g = g
       IN  /\ stack' = IF nested THEN Pop ELSE Without(g)
           /\ lifo' = nested
           /\ pristine' = (pristine /\ nested)
           /\ closed' = (closed \/ nested)
           /\ last' = Done("exit", "", g, "", RetNone, <<>>,
                           IF nested THEN [main |-> Top.main, fallback |-> Top.fallback]
                           ELSE Live,
                           nested)
    /\ Count("exit", g)
    /\ UNCHANGED <<cls, raise_exc, guards, loadable, defs>>

\* an exit that finds a fresh _State() where _old_state should be None,
\* and installs its empty sentinels
exit_unentered_installs(g) ==
    /\ guards[g].made
    /\ ~guards[g].old.has
    /\ inst' = [own |-> TRUE, main |-> EmptySentinel, fallback |-> EmptySentinel]
    /\ Count("exit_unentered", g)
    /\ last' = Done("exit_unentered", "", g, "", RetNone, <<>>, Live, FALSE)
    /\ UNCHANGED <<cls, raise_exc, guards, loadable, defs,
                   stack, lifo, pristine, closed>>

\* Import.exit of a guard whose _old_state is None: AttributeError
exit_unentered(g) ==
    /\ guards[g].made
    /\ ~guards[g].old.has
    /\ Count("exit_unentered", g)
    /\ last' = Done("exit_unentered", "", g, "", RetRaise("AttributeError"), <<>>,
                    Live, FALSE)
    /\ UNCHANGED <<cls, inst, raise_exc, guards, loadable, defs,
                   stack, lifo, pristine, closed>>

\* a reset_state that reaches the guard's snapshot too, as it would if
\* enter kept the live sentinels themselves instead of copies
reset_state_aliased(g) ==
    /\ guards[g].made
    /\ SetLive(reset(Live))
    /\ guards' = [guards EXCEPT ![g].old.main = sreset(@), ![g].old.fallback = sreset(@)]
    /\ pristine' = (pristine /\ stack # <<>>)
    /\ Count("reset_state", g)
    /\ last' = Done("reset_state", "", "", "", RetNone, <<>>, Live, TRUE)
    /\ UNCHANGED <<raise_exc, loadable, defs, stack, lifo, closed>>

\* Import.reset_state
reset_state(g) ==
    /\ guards[g].made
    /\ SetLive(reset(Live))
    /\ pristine' = (pristine /\ stack # <<>>)
    /\ Count("reset_state", g)
    /\ last' = Done("reset_state", "", "", "", RetNone, <<>>, Live, TRUE)
    /\ UNCHANGED <<raise_exc, guards, loadable, defs, stack, lifo, closed>>

\* Import.__getattr__ / Import.get_entity: __getattr__(name, state)
handle_lookup(g, name) ==
    /\ guards[g].made
    /\ LET out == getattr_(Live, name, raise_exc)
       IN  /\ SetLive(out.st)
           /\ last' = Done("lookup", "handle", "", name, out.ret, out.consulted,
                           Live, TRUE)
    /\ pristine' = (pristine /\ (stack # <<>> \/ name \notin ControlNames))
    /\ Count("lookup", "")
    /\ UNCHANGED <<raise_exc, guards, loadable, defs, stack, lifo, closed>>

\* the module-level __getattr__(name): state is None, so a fresh _State()
module_lookup(name) ==
    /\ LET out == getattr_(Fresh, name, FALSE)
       IN  /\ cls' = out.st
           /\ last' = Done("lookup", "module", "", name, out.ret, out.consulted,
                           Fresh, TRUE)
    /\ pristine' = (pristine /\ (stack # <<>> \/ name \notin ControlNames))
    /\ Count("lookup", "")
    /\ UNCHANGED <<inst, raise_exc, guards, loadable, defs, stack, lifo, closed>>

Next ==
    \/ \E g \in Guards, m \in ScopeNames, f \in ScopeNames, r \in ScopeRaises :
            Construct(g, m, f, r)
    \/ \E g \in Guards : enter(g)
    \/ \E g \in Guards : exit(g)
    \/ \E g \in Guards : exit_unentered(g)
    \/ \E g \in Guards : reset_state(g)
    \/ \E g \in Guards, name \in ScopeLookups \cup ControlNames : handle_lookup(g, name)
    \/ \E name \in ScopeLookups \cup ControlNames : module_lookup(name)

\* the scoping discipline: two guards, under one host
Spec == Init /\ [][Next]_vars

\* the operations of one guard, and the module-level lookups
NextOne ==
    \/ \E m \in ScopeNames, f \in ScopeNames, r \in BOOLEAN : Construct("A", m, f, r)
    \/ enter("A")
    \/ exit("A")
    \/ exit_unentered("A")
    \/ reset_state("A")
    \/ \E name \in Names \cup ControlNames : handle_lookup("A", name)
    \/ \E name \in Names \cup ControlNames : module_lookup(name)

\* the resolver: one guard, under every host
SpecHosts == InitHosts /\ [][NextOne]_vars

----------------------------------------------------------------------------
\* Vocabulary of the properties

\* the last operation was a lookup of an ordinary (non-control) name
OrdinaryLookup == last.op = "lookup" /\ last.name \notin ControlNames

\* the sentinels the last lookup worked on, as it left them
PostView == IF last.via = "module" THEN Fresh ELSE Live

\* the configuration enter installs for guard g
Config(g) == [main |-> Assigned(guards[g].main),
              fallback |-> Assigned(guards[g].fallback)]

\* the last lookup ran inside a scope, on that scope's configuration
InScopeLookup ==
    /\ OrdinaryLookup
    /\ stack # <<>>
    /\ last.pre = Config(Top.g)

\* the last lookup ran on primary p and fallback f, both assigned
ConfiguredLookup(p, f) ==
    /\ OrdinaryLookup
    /\ last.pre = [main |-> Assigned(p), fallback |-> Assigned(f)]

\* namespace ns loads and holds the symbol s
Defines(ns, s) == ns \in loadable /\ <<ns, s>> \in defs

\* a lookup of s in namespace ns can succeed: as a symbol, or as ns itself
Provides(ns, s) == Defines(ns, s) \/ (s = ns /\ ns \in loadable)

SentinelValues == Names \cup {NoneV, FutureV}

----------------------------------------------------------------------------
\* C1: when scopes of distinct guards are properly nested, each exit leaves
\* the live primary and fallback sentinels exactly as they were just before
\* the matching enter, whatever happened in the scope body; and after
\* enter x, enter y, exit y the live state is x's configuration.
C1_ExitRestores ==
    /\ (last.op = "exit" /\ last.ok) => Live = last.pre
    /\ \A x \in Guards, y \in Guards :
          (x # y /\ hist = <<<<"enter", x>>, <<"enter", y>>, <<"exit", y>>>>)
              => Live = Config(x)

\* an inner scope with a body that did something has been closed inside an
\* outer scope, and the outer configuration is live again
C1_Witness ==
    /\ last.op = "exit" /\ last.ok
    /\ Len(stack) = 1
    /\ hist = <<<<"other", "">>>>
    /\ last.g # Top.g
    /\ Live = Config(Top.g)
    /\ guards[last.g].main # guards[Top.g].main

\* C2: from a fresh process, once a scope has been opened and closed, an
\* ordinary module-level lookup outside any scope returns the Future marker
\* and consults no namespace.
C2_ScopeRestoration ==
    (/\ OrdinaryLookup
     /\ last.via = "module"
     /\ stack = <<>>
     /\ pristine
     /\ closed)
        => (last.ret = RetFuture /\ last.consulted = <<>>)

\* C3: in every reachable state a module-level lookup and the same lookup
\* on a scope handle work on the same live state: same outcome, same
\* sentinels left behind in the live state.
C3_SameLiveState ==
    \A n \in Names \cup ControlNames :
        LET m == getattr_(Fresh, n, FALSE)
            h == getattr_(Live, n, raise_exc)
        IN  /\ m.ret = h.ret
            /\ m.consulted = h.consulted
            /\ (IF inst.own THEN Live ELSE m.st) = h.st

\* C10: enter x, enter y, exit x, exit y from the unconfigured state leaves
\* the live sentinels carrying x's configuration, not the empty pre-scope
\* state.
C10_NonLifoHazard ==
    \A x \in Guards, y \in Guards :
        (x # y /\ hist = <<<<"enter", x>>, <<"enter", y>>,
                           <<"exit", x>>, <<"exit", y>>>>)
            => /\ Live = Config(x)
               /\ Live.main # EmptySentinel
               /\ Live.fallback # EmptySentinel

\* both guards were opened and closed out of order, and nothing else happened
C10_Witness ==
    \E x \in Guards, y \in Guards :
        /\ x # y
        /\ hist = <<<<"enter", x>>, <<"enter", y>>, <<"exit", x>>, <<"exit", y>>>>
        /\ stack = <<>>
        /\ ~lifo

----------------------------------------------------------------------------
\* C4: inside a scope opened with raises=false, an ordinary lookup of a
\* name that neither the primary nor the fallback provides returns the
\* NotFound marker and never raises, whether a namespace lacks the symbol
\* or cannot be loaded at all.
C4_SilentFailure ==
    (/\ InScopeLookup
     /\ ~guards[Top.g].raises
     /\ ~Provides(guards[Top.g].main, last.name)
     /\ ~Provides(guards[Top.g].fallback, last.name))
        => last.ret = RetNotFound

\* C5: inside a scope opened with raises=true, no guard having been
\* constructed with raises=false, an ordinary lookup of a name that neither
\* the primary nor the fallback provides raises an error and returns no
\* marker.
C5_RaisingMode ==
    (/\ InScopeLookup
     /\ \A g \in Guards : guards[g].raises
     /\ ~Provides(guards[Top.g].main, last.name)
     /\ ~Provides(guards[Top.g].fallback, last.name))
        => last.ret.kind = "raise"

\* C6 as claimed: with primary p and fallback f configured, an ordinary
\* lookup of a symbol S that p does not define and f defines returns f's S.
C6_FallbackEverySymbol ==
    \A p \in ScopeNames, f \in ScopeNames :
        (/\ InScopeLookup
         /\ last.pre = [main |-> Assigned(p), fallback |-> Assigned(f)]
         /\ ~Defines(p, last.name)
         /\ Defines(f, last.name))
            => last.ret = RetSymbol(f, last.name)

\* C6: with a non-empty primary name p and fallback f configured, an
\* ordinary lookup of a symbol S that p does not define and f defines, S
\* being neither f's own name nor the name of a loadable p, returns f's S
\* after consulting p and then f, under either error policy.
C6_FallbackCorrectness ==
    \A p \in SentinelValues, f \in SentinelValues :
        (/\ ConfiguredLookup(p, f)
         /\ p # ""
         /\ last.name # f
         /\ ~(last.name = p /\ p \in loadable)
         /\ ~Defines(p, last.name)
         /\ Defines(f, last.name))
            => /\ last.ret = RetSymbol(f, last.name)
               /\ last.consulted = <<p, f>>

\* inside a scope, a loadable primary lacked the symbol and the fallback
\* supplied it
C6_Witness ==
    /\ InScopeLookup
    /\ guards[Top.g].main \in loadable
    /\ guards[Top.g].main # guards[Top.g].fallback
    /\ ~Defines(guards[Top.g].main, last.name)
    /\ last.ret = RetSymbol(guards[Top.g].fallback, last.name)

\* C7 as claimed: with primary p configured, an ordinary lookup of any
\* symbol S that p defines returns p's S and consults p alone.
C7_PrimaryEverySymbol ==
    \A p \in ScopeNames :
        (/\ InScopeLookup
         /\ last.pre.main = Assigned(p)
         /\ Defines(p, last.name))
            => /\ last.ret = RetSymbol(p, last.name)
               /\ last.consulted = <<p>>

\* C7: with primary p configured, an ordinary lookup of a symbol S that p
\* defines, S not being p's own name, returns p's S and consults p alone,
\* whatever the fallback is.
C7_PrimaryPrecedence ==
    \A p \in SentinelValues :
        (/\ OrdinaryLookup
         /\ last.pre.main = Assigned(p)
         /\ last.name # p
         /\ Defines(p, last.name))
            => /\ last.ret = RetSymbol(p, last.name)
               /\ last.consulted = <<p>>

\* inside a scope, primary and fallback both defined the symbol and the
\* primary's was returned
C7_Witness ==
    /\ InScopeLookup
    /\ guards[Top.g].main # guards[Top.g].fallback
    /\ Defines(guards[Top.g].main, last.name)
    /\ Defines(guards[Top.g].fallback, last.name)
    /\ last.ret = RetSymbol(guards[Top.g].main, last.name)

\* C8 as claimed: an ordinary lookup of N made while the primary sentinel
\* is pending sets the primary to N with future=false and resolves N as
\* the namespace itself: N is the namespace consulted first and the result
\* is no symbol of another namespace (stated for a non-empty N).
C8_DeferredAlwaysNamespace ==
    (OrdinaryLookup /\ last.pre.main.future /\ last.name # "")
        => /\ PostView.main = Assigned(last.name)
           /\ last.consulted # <<>>
           /\ last.consulted[1] = last.name
           /\ last.ret.kind # "symbol"

\* C8: an ordinary lookup of N made while the primary sentinel is pending
\* sets the primary to N with future=false in that call; if N is not empty
\* it first tries to import N as a namespace, and if N loads it returns the
\* namespace N itself, consulting nothing else.
C8_DeferredAssignment ==
    (OrdinaryLookup /\ last.pre.main.future)
        => /\ PostView.main = Assigned(last.name)
           /\ last.name # "" => (last.consulted # <<>> /\ last.consulted[1] = last.name)
           /\ last.name \in loadable
                => (last.ret = RetModule(last.name) /\ last.consulted = <<last.name>>)

\* a pending primary was named by a lookup that returned the namespace
C8_Witness ==
    /\ OrdinaryLookup
    /\ last.pre.main = Pending
    /\ PostView.main = Assigned(last.name)
    /\ last.ret = RetModule(last.name)

\* C9: an ordinary lookup whose name is the primary namespace's own name,
\* that namespace being loadable, returns the namespace itself, consulting
\* it alone: no symbol lookup inside it, no not-found outcome.
C9_SelfReference ==
    (/\ OrdinaryLookup
     /\ last.pre.main.value = last.name
     /\ last.name \in loadable)
        => /\ last.ret = RetModule(last.name)
           /\ last.consulted = <<last.name>>

\* inside a scope, the primary's own name was looked up, the primary also
\* holding a symbol of that name
C9_Witness ==
    /\ InScopeLookup
    /\ last.name = guards[Top.g].main
    /\ Defines(last.name, last.name)
    /\ last.ret = RetModule(last.name)

----------------------------------------------------------------------------
\* every sentinel object there is: the class-level ones, the ones the
\* global state owns, and the guards' snapshot copies
AllSentinels ==
    {cls.main, cls.fallback}
        \cup (IF inst.own THEN {inst.main, inst.fallback} ELSE {})
        \cup UNION {{guards[g].old.main, guards[g].old.fallback} :
                        g \in {x \in Guards : guards[x].old.has}}

\* C11: in every reachable state every sentinel (live primary and fallback,
\* and every guard's snapshot copies) that is empty has no value and is not
\* pending.
C11_SentinelInvariant ==
    \A s \in AllSentinels : s.empty => (s.value = NoneV /\ ~s.future)

\* a pending primary was reset inside a scope whose guard holds a snapshot:
\* the live sentinel went from pending to empty
C11_Witness ==
    /\ last.op = "reset_state"
    /\ last.pre.main = Pending
    /\ stack # <<>>
    /\ guards[Top.g].old.has
    /\ Live.main.empty

\* some guard was constructed with raises=false
SilentGuard == \E g \in Guards : guards[g].made /\ ~guards[g].raises

\* C12: once a guard has been constructed with raises=false the flag
\* _raise_exc is false, entered or not, and it stays false through every
\* later enter, exit, reset and lookup, also after that guard's scope has
\* closed; no operation but a construction changes the flag.
C12_StickyPolicy ==
    /\ [](SilentGuard => ~raise_exc)
    /\ [][last'.op # "construct" => raise_exc' = raise_exc]_vars

\* the scope of a guard constructed with raises=false has been closed and
\* the flag is still false
C12_Witness ==
    /\ SilentGuard
    /\ last.op = "exit" /\ last.ok
    /\ stack = <<>>
    /\ ~raise_exc

----------------------------------------------------------------------------
\* C13: whenever the primary sentinel has no value, an ordinary lookup
\* returns the Future marker and consults no namespace: no error, no
\* NotFound, no use of the fallback, whatever the fallback sentinel is.
C13_RestingState ==
    (OrdinaryLookup /\ last.pre.main.value = NoneV)
        => (last.ret = RetFuture /\ last.consulted = <<>>)

\* the primary had no value while the fallback was assigned a namespace
\* that defines the name looked up
C13_Witness ==
    /\ OrdinaryLookup
    /\ last.pre.main = EmptySentinel
    /\ ~last.pre.fallback.empty /\ ~last.pre.fallback.future
    /\ Defines(last.pre.fallback.value, last.name)
    /\ last.ret = RetFuture

BothEmpty == [main |-> EmptySentinel, fallback |-> EmptySentinel]

\* C14: reset_state leaves both live sentinels empty at once, so a lookup
\* on the handle made on that state returns the Future marker; the
\* snapshot of the innermost properly nested scope still is the state that
\* preceded its enter, and exit installs it.
C14_ResetInsideScope ==
    /\ last.op = "reset_state" => Live = BothEmpty
    /\ (OrdinaryLookup /\ last.via = "handle" /\ last.pre = BothEmpty)
            => last.ret = RetFuture
    /\ (lifo /\ stack # <<>>)
            => /\ guards[Top.g].old.has
               /\ guards[Top.g].old.main = Top.main
               /\ guards[Top.g].old.fallback = Top.fallback
    /\ (last.op = "exit" /\ last.ok) => Live = last.pre

\* reset_state ran in a scope nested in another one: the live sentinels are
\* empty and the inner guard's snapshot still holds the outer configuration
C14_Witness ==
    /\ last.op = "reset_state"
    /\ lifo
    /\ Len(stack) = 2
    /\ Live = BothEmpty
    /\ guards[Top.g].old.main = Assigned(guards[stack[1].g].main)
    /\ guards[Top.g].old.fallback = Assigned(guards[stack[1].g].fallback)

\* C15: an ordinary lookup of N leaves no sentinel pending: a primary that
\* was pending and a fallback that was pending both end with value N and
\* future=false, in that one call.
C15_DoubleDeferral ==
    OrdinaryLookup
        => /\ ~PostView.main.future
           /\ ~PostView.fallback.future
           /\ last.pre.main.future => PostView.main = Assigned(last.name)
           /\ last.pre.fallback.future => PostView.fallback = Assigned(last.name)

\* both sentinels were pending and one lookup named them both
C15_Witness ==
    /\ OrdinaryLookup
    /\ last.pre = [main |-> Pending, fallback |-> Pending]
    /\ PostView = [main |-> Assigned(last.name), fallback |-> Assigned(last.name)]

----------------------------------------------------------------------------
\* C16: one ordinary lookup consults at most two namespaces: first the
\* primary, once; then the fallback, once, only if the primary attempt
\* failed and the fallback sentinel is not empty; nothing after that.
C16_SingleFallbackAttempt ==
    OrdinaryLookup
        => /\ Len(last.consulted) <= 2
           /\ Len(last.consulted) >= 1
                => /\ last.consulted[1] = PostView.main.value
                   /\ (last.ret.kind \in {"module", "symbol"} /\ Len(last.consulted) = 1)
                        => last.ret.ns = last.consulted[1]
           /\ Len(last.consulted) = 2
                => /\ last.consulted[2] = PostView.fallback.value
                   /\ ~PostView.fallback.empty
                   /\ ~Provides(last.consulted[1], last.name)
                   /\ last.ret.kind \in {"module", "symbol"}
                        => last.ret.ns = last.consulted[2]
           /\ PostView.fallback.empty => Len(last.consulted) <= 1

\* the primary failed, the fallback was tried once and did not have the
\* name either: the lookup ended there
C16_Witness ==
    /\ OrdinaryLookup
    /\ Len(last.consulted) = 2
    /\ last.consulted[1] # last.consulted[2]
    /\ last.consulted[2] \in loadable
    /\ last.ret = RetNotFound

\* C17: exit on a guard that was never entered changes nothing of the
\* state: class-level sentinels, the global state's own sentinels (so the
\* live primary and fallback) and the flag are as before the call, which
\* ends in an error.
C17_ExitBeforeEnter ==
    /\ [](last.op = "exit_unentered" => (Live = last.pre /\ last.ret.kind = "raise"))
    /\ [][last'.op = "exit_unentered"
            => (cls' = cls /\ inst' = inst /\ raise_exc' = raise_exc)]_vars

\* exit failed on a guard never entered while another scope was active
C17_Witness ==
    /\ last.op = "exit_unentered"
    /\ stack # <<>>
    /\ Live = Config(Top.g)
    /\ ~guards[last.g].old.has

\* C18: an ordinary lookup made while neither sentinel of the state it
\* works on is pending changes no sentinel and not the flag, whatever it
\* returns or raises.
C18_LookupReadOnly ==
    /\ []((OrdinaryLookup /\ ~last.pre.main.future /\ ~last.pre.fallback.future)
            => PostView = last.pre)
    /\ [][(/\ last'.op = "lookup"
           /\ last'.name \notin ControlNames
           /\ ~last'.pre.main.future
           /\ ~last'.pre.fallback.future)
            => (cls' = cls /\ inst' = inst /\ raise_exc' = raise_exc)]_vars

\* a lookup on a configured state was answered by the fallback and left
\* the configuration as it was
C18_Witness ==
    /\ OrdinaryLookup
    /\ ~last.pre.main.empty /\ ~last.pre.main.future
    /\ ~last.pre.fallback.empty /\ ~last.pre.fallback.future
    /\ last.pre.main # last.pre.fallback
    /\ Len(last.consulted) = 2
    /\ last.ret.kind = "symbol"
    /\ PostView = last.pre

\* C19: a guard entered twice before being exited keeps the snapshot of
\* its second enter only: after enter, enter, exit, exit from the initial
\* state the live sentinels carry the guard's own names; entered and exited
\* in turn (enter, exit, enter, exit), each exit restores the preceding
\* state.
C19_LastSnapshotOnly ==
    \A g \in Guards :
        /\ hist = <<<<"enter", g>>, <<"enter", g>>, <<"exit", g>>>> => Live = Config(g)
        /\ hist = <<<<"enter", g>>, <<"enter", g>>, <<"exit", g>>, <<"exit", g>>>>
                => (Live = Config(g) /\ Live # BothEmpty)
        /\ hist = <<<<"enter", g>>, <<"exit", g>>>> => Live = BothEmpty
        /\ hist = <<<<"enter", g>>, <<"exit", g>>, <<"enter", g>>>> => Live = Config(g)
        /\ hist = <<<<"enter", g>>, <<"exit", g>>, <<"enter", g>>, <<"exit", g>>>>
                => Live = BothEmpty

\* one guard was entered twice and exited twice, nothing else happened
C19_Witness ==
    \E g \in Guards :
        /\ hist = <<<<"enter", g>>, <<"enter", g>>, <<"exit", g>>, <<"exit", g>>>>
        /\ Live = Config(g)
        /\ guards[g].old.main = Assigned(guards[g].main)

====
